---- MODULE Spec2Model ----
(***************************************************************************)
(* permsearch: the policy filter parser (src/src/input_parser.rs), the     *)
(* compatibility matcher and the recursive tree walker (src/src/lib.rs).   *)
(*                                                                         *)
(* Three specifications share the module:                                  *)
(*   Spec       the walk of run / run_recursive over a file system whose   *)
(*              answers (metadata, read_dir) are chosen when first asked;  *)
(*   SpecCheck  one call of check_object on an arbitrary entry under an    *)
(*              arbitrary configuration;                                   *)
(*   SpecParse  one call of FilterSet::from_str on a bounded input string. *)
(***************************************************************************)
EXTENDS Integers, Sequences, FiniteSets, TLC

VARIABLES
    pc,         \* position of the program: which call is running / finished
    config,     \* Args: directory_filter, file_filter, ignore_symlinks
    rootLink,   \* the declared root is itself a symbolic link (never asked by the code)
    fs,         \* answers path.metadata() has given so far: path -> [stat]
    call,       \* pending call run_recursive(call[1]), or <<>>
    stack,      \* frames of run_recursive inside the for loop: [path, entries, i]
    result,     \* what run returned: "none" (still running), "ok", "err"
    out,        \* lines printed on standard output by check_object
    warnings,   \* lines printed by print_access_error
    listed,     \* items read_dir has yielded: [path, kind]
    visited,    \* paths run_recursive was called on
    enumerated, \* paths fs::read_dir was called on
    objChecked, \* paths check_object was called on
    evaluated,  \* paths whose triple was compared with a filter set
    entry,      \* SpecCheck: the entry handed to check_object
    input,      \* SpecParse: the policy string, a sequence of characters
    parsed,     \* SpecParse: what from_str returned
    exit,       \* exit status of the process once main has ended, or <<>>
    errors,     \* what main itself printed on standard error
    st_mode,    \* SpecDecode: the mode handed to PermissionBlock::from
    decoded     \* SpecDecode: the blocks it returned, or <<>>

vars == <<pc, config, rootLink, fs, call, stack, result, out, warnings, listed,
          visited, enumerated, objChecked, evaluated, entry, input, parsed,
          exit, errors, st_mode, decoded>>

decodeVars == <<st_mode, decoded>>

(***************************************************************************)
(* Option<T>: None is the empty tuple, Some(x) the one-element tuple.      *)
(***************************************************************************)
None == <<>>
Some(x) == <<x>>
IsNone(o) == o = <<>>
IsSome(o) == o # <<>>
Unwrap(o) == o[1]

(***************************************************************************)
(* Permission codec (input_parser.rs)                                      *)
(***************************************************************************)
PermissionState == {"SET", "UNSET", "WILDCARD"}

\* digit / 2 and digit % 2 on u32; the assertion digit <= 7 is reported by `panic`
from_st_mode_digit(digit) ==
    LET execute == IF digit % 2 = 1 THEN "SET" ELSE "UNSET"
        d1 == digit \div 2
        write == IF d1 % 2 = 1 THEN "SET" ELSE "UNSET"
        d2 == d1 \div 2
        read == IF d2 % 2 = 1 THEN "SET" ELSE "UNSET"
    IN  [read |-> read, write |-> write, execute |-> execute, panic |-> ~(digit <= 7)]

StripPanic(b) == [read |-> b.read, write |-> b.write, execute |-> b.execute]

\* mutant of DecodeMode: the user digit is what is left of the mode after the two
\* divisions, without the last `% 8`
DecodeMode_UserDigitUnmasked(mode) ==
    LET other == from_st_mode_digit(mode % 8)
        m1 == mode \div 8
        group == from_st_mode_digit(m1 % 8)
        m2 == m1 \div 8
        user == from_st_mode_digit(m2)
    IN  [user |-> user, group |-> group, other |-> other]

\* impl From<&Metadata> for PermissionBlock (input_parser.rs:26-38): the three
\* calls of from_st_mode_digit, each with the outcome of its assertion
DecodeMode(mode) ==
    LET other == from_st_mode_digit(mode % 8)
        m1 == mode \div 8
        group == from_st_mode_digit(m1 % 8)
        m2 == m1 \div 8
        user == from_st_mode_digit(m2 % 8)
    IN  [user |-> user, group |-> group, other |-> other]

\* impl From<&Metadata> for PermissionBlock
PermissionBlockFrom(mode) ==
    [user |-> StripPanic(DecodeMode(mode).user),
     group |-> StripPanic(DecodeMode(mode).group),
     other |-> StripPanic(DecodeMode(mode).other)]

\* impl Display for PartialPermissionBlock
FmtState(state, letter) ==
    CASE state = "SET" -> letter
      [] state = "UNSET" -> "-"
      [] state = "WILDCARD" -> "*"

FmtPartial(b) == <<FmtState(b.read, "r"), FmtState(b.write, "w"), FmtState(b.execute, "x")>>

\* impl Display for PermissionBlock
FmtBlock(p) == FmtPartial(p.user) \o FmtPartial(p.group) \o FmtPartial(p.other)

(***************************************************************************)
(* Compatibility matcher                                                   *)
(***************************************************************************)
\* mutant of CompatStep: a wildcard is compared like any other state
CompatStep_NoWildcard(a, b) ==
    IF a # b THEN "fail" ELSE "next"

\* one iteration of the loop of PartialPermissionBlock::is_compatible:
\* "skip" on a wildcard, "fail" on a difference, "next" otherwise
CompatStep(a, b) ==
    IF a = "WILDCARD" \/ b = "WILDCARD" THEN "skip"
    ELSE IF a # b THEN "fail"
    ELSE "next"

\* PartialPermissionBlock::is_compatible: the loop returns false at the first
\* position that fails, true when it runs to its end
PartialIsCompatible(self, other) ==
    IF CompatStep(self.read, other.read) = "fail" THEN FALSE
    ELSE IF CompatStep(self.write, other.write) = "fail" THEN FALSE
    ELSE IF CompatStep(self.execute, other.execute) = "fail" THEN FALSE
    ELSE TRUE

\* PermissionBlock::is_compatible
BlockIsCompatible(self, other) ==
    /\ PartialIsCompatible(self.user, other.user)
    /\ PartialIsCompatible(self.group, other.group)
    /\ PartialIsCompatible(self.other, other.other)

\* body of the loop over the filters in check_object: TRUE when no `continue`
\* is taken, i.e. the filter applies completely
FilterApplies(filter, meta_uid, meta_gid, permissions) ==
    IF IsSome(filter.user_owner) /\ Unwrap(filter.user_owner) # meta_uid THEN FALSE
    ELSE IF IsSome(filter.group_owner) /\ Unwrap(filter.group_owner) # meta_gid THEN FALSE
    ELSE IF IsSome(filter.permissions)
            /\ ~BlockIsCompatible(Unwrap(filter.permissions), permissions) THEN FALSE
    ELSE TRUE

\* mutant of AnyFilterApplies: only the first filter of the set is tried
AnyFilterApplies_FirstOnly(filters, i, meta_uid, meta_gid, permissions) ==
    /\ i <= Len(filters)
    /\ FilterApplies(filters[i], meta_uid, meta_gid, permissions)

\* the loop itself: returns at the first filter that applies
RECURSIVE AnyFilterApplies(_, _, _, _, _)
AnyFilterApplies(filters, i, meta_uid, meta_gid, permissions) ==
    IF i > Len(filters) THEN FALSE
    ELSE IF FilterApplies(filters[i], meta_uid, meta_gid, permissions) THEN TRUE
    ELSE AnyFilterApplies(filters, i + 1, meta_uid, meta_gid, permissions)

(***************************************************************************)
(* check_object (lib.rs).  `stat` is the answer of path.metadata(): None   *)
(* for an error, Some(metadata) otherwise.  The result tells whether the   *)
(* call returned Ok, whether the filter loop was reached, and the lines it *)
(* printed.                                                                *)
(***************************************************************************)
Prefix(is_symlink, is_dir) ==
    IF is_symlink THEN "l" ELSE IF is_dir THEN "d" ELSE "-"

FallbackFilters(base_dir_meta) ==
    <<[user_owner |-> Some(base_dir_meta.uid),
       group_owner |-> Some(base_dir_meta.gid),
       permissions |-> None]>>

\* mutant of OutOfScope: the early return for regular files is missing
OutOfScope_DirOnly(cfg, metadata) ==
    metadata.is_dir /\ IsNone(cfg.directory_filter)

\* the two early returns (lib.rs:106-112)
OutOfScope(cfg, metadata) ==
    \/ metadata.is_dir /\ IsNone(cfg.directory_filter)
    \/ metadata.is_file /\ IsNone(cfg.file_filter)

check_object(path, cfg, base_dir_meta, is_symlink, stat) ==
    IF IsNone(stat) THEN [ok |-> FALSE, evaluated |-> FALSE, lines |-> <<>>]
    ELSE
    LET metadata == Unwrap(stat)
        is_dir == metadata.is_dir
    IN  IF OutOfScope(cfg, metadata)
            THEN [ok |-> TRUE, evaluated |-> FALSE, lines |-> <<>>]
        ELSE
        LET permissions == PermissionBlockFrom(metadata.mode)
            chosen == IF is_dir THEN cfg.directory_filter ELSE cfg.file_filter
            filters == IF IsSome(chosen) THEN Unwrap(chosen)
                       ELSE FallbackFilters(base_dir_meta)
        IN  IF AnyFilterApplies(filters, 1, metadata.uid, metadata.gid, permissions)
                THEN [ok |-> TRUE, evaluated |-> TRUE, lines |-> <<>>]
            ELSE [ok |-> TRUE, evaluated |-> TRUE,
                  lines |-> <<[prefix |-> Prefix(is_symlink, is_dir),
                               permissions |-> FmtBlock(permissions),
                               uid |-> metadata.uid,
                               gid |-> metadata.gid,
                               path |-> path]>>]

(***************************************************************************)
(* The file system the walker asks.  It is not part of the program: every  *)
(* answer is chosen when the program first asks for it and is then kept in *)
(* `fs`, so that the same path always gives the same answer (a file system *)
(* that does not change during the walk).                                  *)
(***************************************************************************)
MaxChildren == 3    \* longest listing read_dir yields
MaxDepth == 2       \* deepest directory level that has entries
MaxNodes == 3       \* entries yielded during the whole walk

Root == <<>>

\* st_mode: the file-type bits (S_IFDIR 0o040000, S_IFREG 0o100000, S_IFIFO 0o010000)
\* above the permission bits
TypeBits(type) ==
    CASE type = "dir" -> 4 * 8 * 8 * 8 * 8
      [] type = "file" -> 8 * 8 * 8 * 8 * 8
      [] type = "other" -> 8 * 8 * 8 * 8

\* what path.metadata() exposes: Metadata::is_dir, is_file, st_uid, st_gid, mode
Meta(type, uid, gid, perm) ==
    [is_dir |-> type = "dir", is_file |-> type = "file",
     uid |-> uid, gid |-> gid, mode |-> TypeBits(type) + perm]

FileTypes == {"dir", "file", "other"}

\* the owners and modes of the walked tree: root:root 0755 and 1:1 0644
WalkProfiles == {[uid |-> 0, gid |-> 0, perm |-> 7 * 64 + 5 * 8 + 5],
                 [uid |-> 1, gid |-> 1, perm |-> 6 * 64 + 4 * 8 + 4]}

\* the metadata of the walked tree: directories with either profile, a regular
\* file root:root 0755 and a node that is neither (a fifo) 1:1 0644; check_object
\* is run on every type, owner and mode under SpecCheck
WalkMetas ==
    {Meta("dir", pr.uid, pr.gid, pr.perm) : pr \in WalkProfiles}
        \cup {Meta("file", 0, 0, 7 * 64 + 5 * 8 + 5),
              Meta("other", 1, 1, 6 * 64 + 4 * 8 + 4)}

\* the answers of path.metadata() for a path: the one already given, or any
StatAnswers(path) ==
    IF path \in DOMAIN fs THEN {fs[path].stat}
    ELSE {None} \cup {Some(m) : m \in WalkMetas}

\* one item of the iterator fs::read_dir returns: an error, or an entry for which
\* value.path().is_symlink() answers true ("link") or false ("plain")
EntryKinds == {"err", "plain", "link"}

Listings(n) == UNION {[1..k -> EntryKinds] : k \in 0..n}

Min(a, b) == IF a < b THEN a ELSE b

\* the answers of fs::read_dir(path): "fail", or a listing within the bounds
ReadDirAnswers(path) ==
    {[ok |-> FALSE, entries |-> <<>>]} \cup
    {[ok |-> TRUE, entries |-> l] :
        l \in Listings(IF Len(path) >= MaxDepth THEN 0
                       ELSE Min(MaxChildren, MaxNodes - Cardinality(listed)))}

\* the filter sets of the walked configurations: -d u0 and -f rw-r--r--
Blk(r, w, x) == [read |-> r, write |-> w, execute |-> x]

WalkDirFilter ==
    <<[user_owner |-> Some(0), group_owner |-> None, permissions |-> None]>>

WalkFileFilter ==
    <<[user_owner |-> None, group_owner |-> None,
       permissions |-> Some([user |-> Blk("SET", "SET", "UNSET"),
                             group |-> Blk("SET", "UNSET", "UNSET"),
                             other |-> Blk("SET", "UNSET", "UNSET")])]>>

WalkConfigs ==
    [directory_filter : {None, Some(WalkDirFilter)},
     file_filter : {None, Some(WalkFileFilter)},
     ignore_symlinks : BOOLEAN]

NoEntry == [stat |-> None, is_symlink |-> FALSE]

\* The declared root is walked as a symbolic link to whatever metadata() answers
\* for it: run and run_recursive reach the root only through metadata(), which
\* follows links (lib.rs:22, 55), and is_symlink() is asked of children alone
\* (lib.rs:70), so the walk of a root that is no link is step for step the same.
Init ==
    /\ pc = "main"
    /\ config \in WalkConfigs
    /\ rootLink = TRUE
    /\ fs = <<>>
    /\ call = None
    /\ stack = <<>>
    /\ result = "none"
    /\ out = <<>>
    /\ warnings = <<>>
    /\ listed = {}
    /\ visited = {}
    /\ enumerated = {}
    /\ objChecked = {}
    /\ evaluated = {}
    /\ entry = NoEntry
    /\ input = <<>>
    /\ parsed = None
    /\ exit = None
    /\ errors = <<>>
    /\ st_mode = 0
    /\ decoded = None

BaseDirMeta == Unwrap(fs[Root].stat)

\* main after run has returned (main.rs:12-15): an Err is printed with eprintln!
\* and main returns, so the process ends with status 0 either way
MainReturns(res) ==
    /\ errors' = IF res = "err" THEN Append(errors, "run error") ELSE errors
    /\ exit' = Some(0)

\* main up to the call of run (main.rs:5-10): Path::exists is metadata().is_ok();
\* without the base directory exit_with_error prints and calls exit(1)
\* (util.rs:5-8)
Main ==
    /\ pc = "main"
    /\ \E stat \in StatAnswers(Root) :
        /\ fs' = (Root :> [stat |-> stat, readdir |-> "unasked"])
        /\ IF IsNone(stat)
           THEN /\ errors' = Append(errors, "base directory doesn't exist")
                /\ exit' = Some(1)
                /\ pc' = "done"
           ELSE /\ pc' = "run"
                /\ UNCHANGED <<exit, errors>>
    /\ UNCHANGED <<config, rootLink, call, stack, result, out, warnings, listed, visited,
                   enumerated, objChecked, evaluated, entry, input, parsed>>
    /\ UNCHANGED decodeVars

\* an Err leaving run_recursive: every caller passes it on with `?` (lib.rs:90,
\* lib.rs:45), so the whole walk ends and run returns it
Propagate ==
    /\ result' = "err"
    /\ pc' = "done"
    /\ call' = None
    /\ stack' = <<>>
    /\ MainReturns("err")

\* run (lib.rs:15-48) up to the call of run_recursive; the banner it prints when
\* not silent is no violation line and is left out of `out`
Run ==
    /\ pc = "run"
    /\ \E stat \in StatAnswers(Root) :
        /\ fs' = (Root :> [stat |-> stat, readdir |-> "unasked"])
        /\ IF IsNone(stat)
           THEN /\ result' = "err"
                /\ pc' = "done"
                /\ MainReturns("err")
                /\ UNCHANGED call
           ELSE /\ call' = Some(Root)
                /\ pc' = "walk"
                /\ UNCHANGED <<result, exit, errors>>
    /\ UNCHANGED <<config, rootLink, stack, out, warnings, listed, visited, enumerated,
                   objChecked, evaluated, entry, input, parsed>>
    /\ UNCHANGED decodeVars

\* the frames whose loop is exhausted return Ok(()) one after the other
\* (lib.rs:91-94), each to the loop of its caller
RECURSIVE PopExhausted(_)
PopExhausted(st) ==
    IF st # <<>> /\ st[Len(st)].i = Len(st[Len(st)].entries)
    THEN PopExhausted(SubSeq(st, 1, Len(st) - 1))
    ELSE st

\* a call of run_recursive returns Ok(()) to the loop that made it, leaving the
\* frames st; when the call on the root has returned, run returns Ok(())
\* (lib.rs:45-47)
ReturnOk(st) ==
    /\ stack' = PopExhausted(st)
    /\ IF PopExhausted(st) = <<>>
       THEN result' = "ok" /\ pc' = "done" /\ MainReturns("ok")
       ELSE UNCHANGED <<pc, result, exit, errors>>

\* mutant of ReadDirErr: the error is reported and then returned to the caller
ReadDirErr_Propagates(path) ==
    /\ warnings' = Append(warnings, [kind |-> "accessing", path |-> path])
    /\ Propagate
    /\ UNCHANGED listed

\* fs::read_dir failed (lib.rs:61-64): report, return Ok(()) to the caller
ReadDirErr(path) ==
    /\ warnings' = Append(warnings, [kind |-> "accessing", path |-> path])
    /\ call' = None
    /\ ReturnOk(stack)
    /\ UNCHANGED listed

\* fs::read_dir succeeded (lib.rs:60, 67): the loop starts over the listing (and
\* ends at once if the listing is empty)
ReadDirOk(path, entries) ==
    /\ ReturnOk(Append(stack, [path |-> path, entries |-> entries, i |-> 0]))
    /\ listed' = listed \cup
            {[path |-> Append(path, k), kind |-> entries[k]] : k \in 1..Len(entries)}
    /\ call' = None
    /\ UNCHANGED warnings

\* mutant of Enumerates: a directory that was reported is not entered
Enumerates_UnlessReported(metadata, co) == metadata.is_dir /\ co.lines = <<>>

\* lib.rs:58: whatever check_object printed, a directory is enumerated
Enumerates(metadata, co) == metadata.is_dir

\* run_recursive (lib.rs:50-65, 92-94): metadata, check_object, read_dir, up to
\* the first iteration of the loop or, without one, to the return
RunRecursive ==
    /\ pc = "walk"
    /\ IsSome(call)
    /\ LET path == Unwrap(call) IN
       /\ visited' = visited \cup {path}
       /\ \E stat \in StatAnswers(path) :
          IF IsNone(stat)
          THEN /\ fs' = IF path \in DOMAIN fs THEN fs
                        ELSE fs @@ (path :> [stat |-> stat, readdir |-> "unasked"])
               /\ Propagate
               /\ UNCHANGED <<out, warnings, listed, enumerated, objChecked, evaluated>>
          ELSE
          LET co == check_object(path, config, BaseDirMeta, FALSE, stat) IN
          /\ objChecked' = objChecked \cup {path}
          /\ evaluated' = IF co.evaluated THEN evaluated \cup {path} ELSE evaluated
          /\ out' = out \o co.lines
          /\ IF ~co.ok
             THEN /\ Propagate
                  /\ fs' = fs
                  /\ UNCHANGED <<warnings, listed, enumerated>>
             ELSE IF ~Enumerates(Unwrap(stat), co)
             THEN /\ call' = None
                  /\ ReturnOk(stack)
                  /\ fs' = IF path \in DOMAIN fs THEN fs
                           ELSE fs @@ (path :> [stat |-> stat, readdir |-> "unasked"])
                  /\ UNCHANGED <<warnings, listed, enumerated>>
             ELSE \E rd \in ReadDirAnswers(path) :
                  /\ enumerated' = enumerated \cup {path}
                  /\ fs' = [q \in DOMAIN fs \cup {path} |->
                               IF q = path
                               THEN [stat |-> stat,
                                     readdir |-> IF rd.ok THEN "ok" ELSE "fail"]
                               ELSE fs[q]]
                  /\ IF ~rd.ok
                     THEN ReadDirErr(path)
                     ELSE ReadDirOk(path, rd.entries)
    /\ UNCHANGED <<config, rootLink, entry, input, parsed>>
    /\ UNCHANGED decodeVars

Top == stack[Len(stack)]

\* a child the iterator failed to yield (lib.rs:86-89): report, continue
ChildErr(parent) ==
    /\ warnings' = Append(warnings, [kind |-> "accessing child of", path |-> parent])
    /\ UNCHANGED <<fs, call, out, objChecked, evaluated>>

\* mutant of ChecksSymlinks: the ignore_symlinks flag is not consulted
ChecksSymlinks_Always(cfg) == TRUE

\* lib.rs:71: a symbolic link is checked unless symlinks are ignored
ChecksSymlinks(cfg) == ~cfg.ignore_symlinks

\* a child for which is_symlink() is true (lib.rs:70-83): check_object with
\* is_symlink = true, its error reported, never run_recursive
SymlinkChild(child) ==
    /\ IF ChecksSymlinks(config)
       THEN \E stat \in StatAnswers(child) :
            LET co == check_object(child, config, BaseDirMeta, TRUE, stat) IN
            /\ fs' = fs @@ (child :> [stat |-> stat, readdir |-> "unasked"])
            /\ objChecked' = objChecked \cup {child}
            /\ evaluated' = IF co.evaluated THEN evaluated \cup {child} ELSE evaluated
            /\ out' = out \o co.lines
            /\ warnings' = IF ~co.ok
                           THEN Append(warnings,
                                   [kind |-> "reading symlink", path |-> child])
                           ELSE warnings
       ELSE UNCHANGED <<fs, out, warnings, objChecked, evaluated>>
    /\ UNCHANGED call

\* any other child (lib.rs:84): run_recursive is called on it
PlainChild(child) ==
    /\ call' = Some(child)
    /\ UNCHANGED <<fs, out, warnings, objChecked, evaluated>>

\* one iteration of `for child in children` (lib.rs:67-91); after the last one
\* the function returns
LoopChild ==
    /\ pc = "walk"
    /\ IsNone(call)
    /\ stack # <<>>
    /\ Top.i < Len(Top.entries)
    /\ LET kind == Top.entries[Top.i + 1]
           child == Append(Top.path, Top.i + 1)
           advanced == [stack EXCEPT ![Len(stack)].i = @ + 1]
       IN
       CASE kind = "err" -> ChildErr(Top.path) /\ ReturnOk(advanced)
         [] kind = "link" -> SymlinkChild(child) /\ ReturnOk(advanced)
         [] kind = "plain" ->
                /\ PlainChild(child)
                /\ stack' = advanced
                /\ UNCHANGED <<pc, result, exit, errors>>
    /\ UNCHANGED <<config, rootLink, listed, visited, enumerated, entry, input, parsed>>
    /\ UNCHANGED decodeVars

Next ==
    \/ Main
    \/ Run
    \/ RunRecursive
    \/ LoopChild

Spec == Init /\ [][Next]_vars

(***************************************************************************)
(* SpecCheck: one call of check_object.  The filter sets are all sequences *)
(* of at most MaxClauses clauses a parse can return (no clause with all    *)
(* three fields absent); the entry is any answer of path.metadata().       *)
(***************************************************************************)
MaxClauses == 2     \* longest filter set
Ids == {0, 1}       \* owner and group ids

AllWildcard ==
    [user |-> Blk("WILDCARD", "WILDCARD", "WILDCARD"),
     group |-> Blk("WILDCARD", "WILDCARD", "WILDCARD"),
     other |-> Blk("WILDCARD", "WILDCARD", "WILDCARD")]

\* the patterns ********* and rw-r--r--
CheckPatterns == {AllWildcard, Unwrap(WalkFileFilter[1].permissions)}

CheckClauses ==
    {f \in [user_owner : {None} \cup {Some(i) : i \in Ids},
            group_owner : {None, Some(0)},
            permissions : {None} \cup {Some(p) : p \in CheckPatterns}] :
        ~(IsNone(f.user_owner) /\ IsNone(f.group_owner) /\ IsNone(f.permissions))}

CheckFilterSets == UNION {[1..k -> CheckClauses] : k \in 1..MaxClauses}

CheckConfigs ==
    {[directory_filter |-> Some(F), file_filter |-> None, ignore_symlinks |-> FALSE] :
        F \in CheckFilterSets}
    \cup
    {[directory_filter |-> None, file_filter |-> Some(F), ignore_symlinks |-> FALSE] :
        F \in CheckFilterSets}
    \cup
    {[directory_filter |-> Some(WalkDirFilter), file_filter |-> Some(WalkFileFilter),
      ignore_symlinks |-> FALSE],
     [directory_filter |-> None, file_filter |-> None, ignore_symlinks |-> FALSE]}

\* permission bits 0644 and 04755 (setuid)
CheckPerms == {6 * 64 + 4 * 8 + 4, 4 * 512 + 7 * 64 + 5 * 8 + 5}

CheckMetas == {Meta(t, u, g, m) : t \in FileTypes, u \in Ids, g \in Ids, m \in CheckPerms}

\* the root's metadata is read only by the fallback filter, which is built only
\* when no file filter is configured
CheckBases(cfg) ==
    IF IsNone(cfg.file_filter)
    THEN {Meta("dir", i, i, 7 * 64 + 5 * 8 + 5) : i \in Ids}
    ELSE {Meta("dir", 0, 0, 7 * 64 + 5 * 8 + 5)}

CheckPath == <<1>>

CheckInit ==
    /\ pc = "check"
    /\ config \in CheckConfigs
    /\ rootLink = FALSE
    /\ fs = <<>>
    /\ call = None
    /\ stack = <<>>
    /\ result = "none"
    /\ out = <<>>
    /\ warnings = <<>>
    /\ listed = {}
    /\ visited = {}
    /\ enumerated = {}
    /\ objChecked = {}
    /\ evaluated = {}
    /\ entry = NoEntry
    /\ input = <<>>
    /\ parsed = None
    /\ exit = None
    /\ errors = <<>>
    /\ st_mode = 0
    /\ decoded = None

\* check_object(path, config, base_dir_meta, is_symlink) (lib.rs:97-176)
CheckObjectCall ==
    /\ pc = "check"
    /\ \E stat \in {None} \cup {Some(m) : m \in CheckMetas},
          is_symlink \in BOOLEAN,
          base \in CheckBases(config) :
        LET co == check_object(CheckPath, config, base, is_symlink, stat) IN
        /\ entry' = [stat |-> stat, is_symlink |-> is_symlink, base |-> base, ok |-> co.ok]
        /\ out' = out \o co.lines
        /\ objChecked' = {CheckPath}
        /\ evaluated' = IF co.evaluated THEN {CheckPath} ELSE {}
    /\ pc' = "checked"
    /\ UNCHANGED <<config, rootLink, fs, call, stack, result, warnings, listed,
                   visited, enumerated, input, parsed, exit, errors>>
    /\ UNCHANGED decodeVars

CheckNext == CheckObjectCall

SpecCheck == CheckInit /\ [][CheckNext]_vars

(***************************************************************************)
(* The filter grammar parser (input_parser.rs).  A string is a sequence of *)
(* characters; a character is a one-letter string, except "NL" (line       *)
(* feed), "e_acute" (U+00E9, two bytes in UTF-8, no digit) and "arabic_3"  *)
(* (U+0663, two bytes, a decimal digit for the regex class \d).            *)
(***************************************************************************)
NonAscii == {"e_acute", "arabic_3"}

AsciiDigits == {"0", "1", "2", "3", "4", "5", "6", "7", "8", "9"}

\* str::is_ascii
IsAscii(chars) == \A k \in 1..Len(chars) : chars[k] \notin NonAscii

\* str::len: the length in bytes
RECURSIVE ByteLen(_)
ByteLen(chars) ==
    IF chars = <<>> THEN 0
    ELSE (IF Head(chars) \in NonAscii THEN 2 ELSE 1) + ByteLen(Tail(chars))

\* the number of characters before byte offset b, counted from character k + 1
\* on with `bytes` bytes before it; -1 if b is no character boundary of the string
RECURSIVE CharsBefore(_, _, _, _)
CharsBefore(chars, k, bytes, b) ==
    IF bytes = b THEN k
    ELSE IF bytes > b \/ k >= Len(chars) THEN -1
    ELSE CharsBefore(chars, k + 1, bytes + (IF chars[k + 1] \in NonAscii THEN 2 ELSE 1), b)

\* str::get(from..to) on byte offsets: None unless both are character boundaries
StrGet(chars, from, to) ==
    LET i == CharsBefore(chars, 0, 0, from)
        j == CharsBefore(chars, 0, 0, to)
    IN  IF from <= to /\ i >= 0 /\ j >= 0 THEN Some(SubSeq(chars, i + 1, j)) ELSE None

\* one iteration of the loop of safe_from_chars: the state the character stands
\* for, or "invalid"
CharState(character, letter) ==
    IF character \notin {letter, "-", "*"} THEN "invalid"
    ELSE IF character = "*" THEN "WILDCARD"
    ELSE IF character = "-" THEN "UNSET"
    ELSE "SET"

\* PartialPermissionBlock::safe_from_chars
safe_from_chars(chars) ==
    IF ~IsAscii(chars) THEN [ok |-> FALSE, err |-> "Non-ascii characters provided."]
    ELSE IF ByteLen(chars) # 3
        THEN [ok |-> FALSE,
              err |-> "Permission block has an invalid number of characters (!= 3)."]
    ELSE
    LET read == CharState(chars[1], "r")
        write == CharState(chars[2], "w")
        execute == CharState(chars[3], "x")
    IN  IF read = "invalid" \/ write = "invalid" \/ execute = "invalid"
        THEN [ok |-> FALSE, err |-> "Invalid character"]
        ELSE [ok |-> TRUE, block |-> Blk(read, write, execute)]

\* Regex ^((r|-|\*)(w|-|\*)(x|-|\*)){3} .is_match(part): the first nine characters
PatternRegexMatches(part) ==
    /\ Len(part) >= 9
    /\ \A k \in 0..2 :
        /\ part[3 * k + 1] \in {"r", "-", "*"}
        /\ part[3 * k + 2] \in {"w", "-", "*"}
        /\ part[3 * k + 3] \in {"x", "-", "*"}

\* the `permissions` block of from_str (input_parser.rs:229-248)
ParsePermissions(part) ==
    IF ~PatternRegexMatches(part) THEN [ok |-> TRUE, value |-> None]
    ELSE
    LET u == StrGet(part, 0, 3)
        g == StrGet(part, 3, 6)
        o == StrGet(part, 6, 9)
    IN  IF IsNone(u) THEN [ok |-> FALSE, err |-> "Failed to extract user permissions"]
        ELSE IF ~safe_from_chars(Unwrap(u)).ok
            THEN [ok |-> FALSE, err |-> safe_from_chars(Unwrap(u)).err]
        ELSE IF IsNone(g) THEN [ok |-> FALSE, err |-> "Failed to extract group permissions"]
        ELSE IF ~safe_from_chars(Unwrap(g)).ok
            THEN [ok |-> FALSE, err |-> safe_from_chars(Unwrap(g)).err]
        ELSE IF IsNone(o) THEN [ok |-> FALSE, err |-> "Failed to extract other permissions"]
        ELSE IF ~safe_from_chars(Unwrap(o)).ok
            THEN [ok |-> FALSE, err |-> safe_from_chars(Unwrap(o)).err]
        ELSE [ok |-> TRUE,
              value |-> Some([user |-> safe_from_chars(Unwrap(u)).block,
                              group |-> safe_from_chars(Unwrap(g)).block,
                              other |-> safe_from_chars(Unwrap(o)).block])]

\* the regex class \d (Unicode decimal digits) and the regex `.` (no line feed)
IsDigit(c) == c \in AsciiDigits \cup {"arabic_3"}

DotMatches(chars) == \A k \in 1..Len(chars) : chars[k] # "NL"

\* the longest run of digits of part starting at position k (greedy \d+)
RECURSIVE DigitRun(_, _)
DigitRun(part, k) ==
    IF k <= Len(part) /\ IsDigit(part[k]) THEN <<part[k]>> \o DigitRun(part, k + 1)
    ELSE <<>>

\* mutant of RegexMarker: the first .* is lazy, the leftmost marker is captured
RECURSIVE RegexMarker_Lazy(_, _, _)
RegexMarker_Lazy(part, letter, k) ==
    LET j == Len(part) - k IN
    IF k < 0 THEN None
    ELSE IF j + 2 <= Len(part) /\ part[j + 1] = letter /\ IsDigit(part[j + 2])
        THEN Some(DigitRun(part, j + 2))
    ELSE RegexMarker_Lazy(part, letter, k - 1)

\* Regex ^.*<letter>(\d+).*$ on a text without line feed, group 1: the greedy
\* first .* is tried at its longest (k characters) first and gives characters
\* back one at a time; the greedy \d+ takes the whole run, the last .* the rest
RECURSIVE RegexMarker(_, _, _)
RegexMarker(part, letter, k) ==
    IF k < 0 THEN None
    ELSE IF k + 2 <= Len(part) /\ part[k + 1] = letter /\ IsDigit(part[k + 2])
        THEN Some(DigitRun(part, k + 2))
    ELSE RegexMarker(part, letter, k - 1)

DigitValue(c) ==
    CASE c = "0" -> 0 [] c = "1" -> 1 [] c = "2" -> 2 [] c = "3" -> 3 [] c = "4" -> 4
      [] c = "5" -> 5 [] c = "6" -> 6 [] c = "7" -> 7 [] c = "8" -> 8 [] c = "9" -> 9

\* u32::MAX = 4294967295, digit by digit
U32MaxDigits == <<4, 2, 9, 4, 9, 6, 7, 2, 9, 5>>

RECURSIVE StripZeros(_)
StripZeros(digits) ==
    IF digits # <<>> /\ Head(digits) = "0" THEN StripZeros(Tail(digits)) ELSE digits

\* the decimal number is larger than u32::MAX
Overflows(digits) ==
    LET d == StripZeros(digits) IN
    \/ Len(d) > Len(U32MaxDigits)
    \/ /\ Len(d) = Len(U32MaxDigits)
       /\ \E k \in 1..Len(d) :
            /\ DigitValue(d[k]) > U32MaxDigits[k]
            /\ \A j \in 1..(k - 1) : DigitValue(d[j]) = U32MaxDigits[j]

RECURSIVE DecimalValue(_, _)
DecimalValue(digits, acc) ==
    IF digits = <<>> THEN acc
    ELSE DecimalValue(Tail(digits), acc * 10 + DigitValue(Head(digits)))

\* str::parse::<u32> of a non-empty string: ASCII digits only, an error on
\* overflow (the first invalid digit is found before the overflow only if it
\* comes first; both are errors)
ParseU32(digits) ==
    IF \E k \in 1..Len(digits) : digits[k] \notin AsciiDigits
        THEN [ok |-> FALSE, err |-> "invalid digit found in string"]
    ELSE IF Overflows(digits)
        THEN [ok |-> FALSE, err |-> "number too large to fit in target type"]
    ELSE [ok |-> TRUE, value |-> DecimalValue(digits, 0)]

\* Regex ^.*<letter>(\d+).*$ .captures(part): `.` matches no line feed and ^ and
\* $ match only at the two ends of the text, so a line feed anywhere prevents
\* the match
RegexCaptures(part, letter) ==
    IF ~DotMatches(part) THEN None ELSE RegexMarker(part, letter, Len(part))

\* the `user_owner` and `group_owner` blocks of from_str
ParseMarker(part, letter) ==
    LET cap == RegexCaptures(part, letter) IN
    IF IsNone(cap) THEN [ok |-> TRUE, value |-> None]
    ELSE IF ~ParseU32(Unwrap(cap)).ok
        THEN [ok |-> FALSE, err |-> ParseU32(Unwrap(cap)).err]
    ELSE [ok |-> TRUE, value |-> Some(ParseU32(Unwrap(cap)).value)]

\* mutant of IsEmptyClause: the permission pattern is not looked at
IsEmptyClause_OwnersOnly(user_owner, group_owner, permissions) ==
    IsNone(user_owner) /\ IsNone(group_owner)

\* the test before `continue` in from_str
IsEmptyClause(user_owner, group_owner, permissions) ==
    IsNone(user_owner) /\ IsNone(group_owner) /\ IsNone(permissions)

\* str::split(','): "" gives one empty part
RECURSIVE Split(_)
Split(chars) ==
    IF \A k \in 1..Len(chars) : chars[k] # "," THEN <<chars>>
    ELSE LET k == CHOOSE k \in 1..Len(chars) :
                    chars[k] = "," /\ \A j \in 1..(k - 1) : chars[j] # ","
         IN  <<SubSeq(chars, 1, k - 1)>> \o Split(SubSeq(chars, k + 1, Len(chars)))

\* the body of `for part in s.split(',')`: an error (`?`), "skip" (`continue`)
\* or the filter that is added
ParseClause(part) ==
    LET permissions == ParsePermissions(part)
        user_owner == ParseMarker(part, "u")
        group_owner == ParseMarker(part, "g")
    IN  IF ~permissions.ok THEN [kind |-> "err", err |-> permissions.err]
        ELSE IF ~user_owner.ok THEN [kind |-> "err", err |-> user_owner.err]
        ELSE IF ~group_owner.ok THEN [kind |-> "err", err |-> group_owner.err]
        ELSE IF IsEmptyClause(user_owner.value, group_owner.value, permissions.value)
            THEN [kind |-> "skip"]
        ELSE [kind |-> "add",
              filter |-> [user_owner |-> user_owner.value,
                          group_owner |-> group_owner.value,
                          permissions |-> permissions.value]]

\* the loop of from_str and what follows it
RECURSIVE FromStrLoop(_, _, _)
FromStrLoop(parts, i, filters) ==
    IF i > Len(parts)
    THEN IF filters = <<>>
         THEN [ok |-> FALSE, filters |-> <<>>, err |-> "No valid filter provided"]
         ELSE [ok |-> TRUE, filters |-> filters, err |-> ""]
    ELSE LET c == ParseClause(parts[i]) IN
         IF c.kind = "err" THEN [ok |-> FALSE, filters |-> <<>>, err |-> c.err]
         ELSE IF c.kind = "skip" THEN FromStrLoop(parts, i + 1, filters)
         ELSE FromStrLoop(parts, i + 1, Append(filters, c.filter))

\* FilterSet::from_str
from_str(s) == FromStrLoop(Split(s), 1, <<>>)

(***************************************************************************)
(* SpecParse: from_str on every string of at most MaxTokens tokens.        *)
(***************************************************************************)
MaxTokens == 4      \* tokens in a policy string

\* the pattern rw-*---*x: letters, dashes and wildcards
PatA == <<"r", "w", "-", "*", "-", "-", "-", "*", "x">>

\* 4294967296 = u32::MAX + 1
TooBig == <<"4", "2", "9", "4", "9", "6", "7", "2", "9", "6">>

Tokens ==
    {PatA, <<"w", "w", "x">>,
     <<"u", "1">>, <<"g", "2">>, <<"u">>, <<"0">>,
     <<",">>, <<"NL">>, <<"e_acute">>, <<"arabic_3">>, TooBig}

RECURSIVE Concat(_)
Concat(toks) == IF toks = <<>> THEN <<>> ELSE Head(toks) \o Concat(Tail(toks))

Inputs == {Concat(t) : t \in UNION {[1..n -> Tokens] : n \in 0..MaxTokens}}

ParseInit ==
    /\ pc = "parse"
    /\ input \in Inputs
    /\ parsed = None
    /\ config = [directory_filter |-> None, file_filter |-> None, ignore_symlinks |-> FALSE]
    /\ rootLink = FALSE
    /\ fs = <<>>
    /\ call = None
    /\ stack = <<>>
    /\ result = "none"
    /\ out = <<>>
    /\ warnings = <<>>
    /\ listed = {}
    /\ visited = {}
    /\ enumerated = {}
    /\ objChecked = {}
    /\ evaluated = {}
    /\ entry = NoEntry
    /\ exit = None
    /\ errors = <<>>
    /\ st_mode = 0
    /\ decoded = None

\* clap parses the value of --directory-filter / --file-filter with from_str
FromStr ==
    /\ pc = "parse"
    /\ parsed' = Some(from_str(input))
    /\ pc' = "parsed"
    /\ UNCHANGED <<config, rootLink, fs, call, stack, result, out, warnings, listed,
                   visited, enumerated, objChecked, evaluated, entry, input,
                   exit, errors>>
    /\ UNCHANGED decodeVars

ParseNext == FromStr

SpecParse == ParseInit /\ [][ParseNext]_vars

(***************************************************************************)
(* SpecDecode: PermissionBlock::from on one st_mode.  The modes are all    *)
(* values of ModeBits bits: the nine permission bits, setuid, setgid and   *)
(* sticky above them and the file-type bits above those.                   *)
(***************************************************************************)
ModeBits == 16

Modes == 0..(2 ^ ModeBits - 1)

DecodeInit ==
    /\ pc = "decode"
    /\ st_mode \in Modes
    /\ decoded = None
    /\ config = [directory_filter |-> None, file_filter |-> None, ignore_symlinks |-> FALSE]
    /\ rootLink = FALSE
    /\ fs = <<>>
    /\ call = None
    /\ stack = <<>>
    /\ result = "none"
    /\ out = <<>>
    /\ warnings = <<>>
    /\ listed = {}
    /\ visited = {}
    /\ enumerated = {}
    /\ objChecked = {}
    /\ evaluated = {}
    /\ entry = NoEntry
    /\ input = <<>>
    /\ parsed = None
    /\ exit = None
    /\ errors = <<>>

\* PermissionBlock::from(&metadata) (input_parser.rs:26-38)
Decode ==
    /\ pc = "decode"
    /\ decoded' = Some(DecodeMode(st_mode))
    /\ pc' = "decoded"
    /\ UNCHANGED <<config, rootLink, fs, call, stack, result, out, warnings, listed,
                   visited, enumerated, objChecked, evaluated, entry, input, parsed,
                   exit, errors, st_mode>>

DecodeNext == Decode

SpecDecode == DecodeInit /\ [][DecodeNext]_vars

(***************************************************************************)
(* Properties of check_object and the matcher (SpecCheck)                  *)
(***************************************************************************)
\* the state of position pos (1..9: user r, w, x, group r, w, x, other r, w, x)
\* of a filter pattern, and of an entry's mode (bit 9 - pos of st_mode)
PatternState(p, pos) ==
    <<p.user.read, p.user.write, p.user.execute,
      p.group.read, p.group.write, p.group.execute,
      p.other.read, p.other.write, p.other.execute>>[pos]

ModeState(mode, pos) == IF (mode \div (2 ^ (9 - pos))) % 2 = 1 THEN "SET" ELSE "UNSET"

\* a clause matches a triple: every present field passes
ClauseMatches(f, m) ==
    /\ IsSome(f.user_owner) => Unwrap(f.user_owner) = m.uid
    /\ IsSome(f.group_owner) => Unwrap(f.group_owner) = m.gid
    /\ IsSome(f.permissions) =>
        \A pos \in 1..9 :
            \/ PatternState(Unwrap(f.permissions), pos) = "WILDCARD"
            \/ PatternState(Unwrap(f.permissions), pos) = ModeState(m.mode, pos)

\* the checked entry is a directory with a directory filter set configured, or a
\* regular file with a file filter set configured
EntryInScope ==
    /\ pc = "checked"
    /\ IsSome(entry.stat)
    /\ \/ Unwrap(entry.stat).is_dir /\ IsSome(config.directory_filter)
       \/ Unwrap(entry.stat).is_file /\ IsSome(config.file_filter)

EntrySet ==
    IF Unwrap(entry.stat).is_dir THEN Unwrap(config.directory_filter)
    ELSE Unwrap(config.file_filter)

\* C1: for an entry in scope check_object prints exactly one line (for that entry)
\* if no clause of the applicable set matches its triple and prints nothing if at
\* least one clause, at whatever position of the set, matches
C1_OneLineIffNoClauseMatches ==
    EntryInScope =>
        /\ entry.ok
        /\ evaluated = {CheckPath}
        /\ IF \E i \in 1..Len(EntrySet) : ClauseMatches(EntrySet[i], Unwrap(entry.stat))
           THEN out = <<>>
           ELSE /\ Len(out) = 1
                /\ out[1].path = CheckPath
                /\ out[1].uid = Unwrap(entry.stat).uid
                /\ out[1].gid = Unwrap(entry.stat).gid

\* an entry in scope passes although the first clause of [A, B] does not match: B does
C1_Witness ==
    /\ EntryInScope
    /\ Len(EntrySet) = 2
    /\ ~ClauseMatches(EntrySet[1], Unwrap(entry.stat))
    /\ ClauseMatches(EntrySet[2], Unwrap(entry.stat))
    /\ out = <<>>

\* C2: under a set of one clause the entry passes iff the owner id is equal when
\* present, the group id is equal when present and every position of a present
\* pattern is a wildcard or equals the entry's state; a clause with another owner
\* id never passes it, a clause that is only an all-wildcard pattern always does;
\* the entry's own states are never wildcards
C2_ClauseMatchesEveryPresentField ==
    (EntryInScope /\ Len(EntrySet) = 1) =>
        LET f == EntrySet[1]
            m == Unwrap(entry.stat)
        IN  /\ (out = <<>>) <=> ClauseMatches(f, m)
            /\ (IsSome(f.user_owner) /\ Unwrap(f.user_owner) # m.uid) => out # <<>>
            /\ (IsNone(f.user_owner) /\ IsNone(f.group_owner)
                    /\ f.permissions = Some(AllWildcard)) => out = <<>>
            /\ \A pos \in 1..9 :
                PatternState(PermissionBlockFrom(m.mode), pos) = ModeState(m.mode, pos)

\* a clause with owner, group and a pattern without wildcards lets an entry pass
C2_Witness ==
    /\ EntryInScope
    /\ Len(EntrySet) = 1
    /\ IsSome(EntrySet[1].user_owner)
    /\ IsSome(EntrySet[1].group_owner)
    /\ IsSome(EntrySet[1].permissions)
    /\ EntrySet[1].permissions # Some(AllWildcard)
    /\ out = <<>>

(***************************************************************************)
(* Properties of the walk (Spec)                                           *)
(***************************************************************************)
Parent(path) == SubSeq(path, 1, Len(path) - 1)

IsBelow(q, path) == Len(q) > Len(path) /\ SubSeq(q, 1, Len(path)) = path

Warned(kind, path) ==
    \E i \in 1..Len(warnings) : warnings[i] = [kind |-> kind, path |-> path]

Reported(path) == \E i \in 1..Len(out) : out[i].path = path

StatFailed(path) == path \in DOMAIN fs /\ IsNone(fs[path].stat)

TypeOf(path) ==
    IF Unwrap(fs[path].stat).is_dir THEN "dir"
    ELSE IF Unwrap(fs[path].stat).is_file THEN "file"
    ELSE "other"

\* C3 as claimed: a metadata failure of a node other than the root is reported as
\* an access warning and never aborts the traversal, so when the walk is over
\* run has returned Ok and every child yielded by read_dir that is no symbolic
\* link has been visited
C3_MetadataFailureSkipsOnlyThatNode ==
    /\ \A path \in DOMAIN fs :
        (path # Root /\ StatFailed(path)) =>
            /\ result # "err"
            /\ \E i \in 1..Len(warnings) : warnings[i].path = path
    /\ pc = "done" =>
        \A e \in listed : e.kind = "plain" => e.path \in visited

\* what the loop does with an item it has consumed
Handled(e) ==
    CASE e.kind = "plain" -> e.path \in visited
      [] e.kind = "link" -> ChecksSymlinks(config) => e.path \in objChecked
      [] e.kind = "err" -> Warned("accessing child of", Parent(e.path))

\* C4: a failed read_dir is reported, nothing below that directory is listed or
\* visited, and neither it nor an item the iterator failed to yield ends the walk:
\* run returns an error only after a metadata failure, and when run returns Ok
\* every item of every listing has been handled (a child visited, a symbolic link
\* checked unless ignored, a failed item reported once each)
C4_EnumerationFailureIsAbsorbed ==
    /\ \A path \in DOMAIN fs :
        fs[path].readdir = "fail" =>
            /\ Warned("accessing", path)
            /\ \A e \in listed : ~IsBelow(e.path, path)
            /\ \A q \in visited : ~IsBelow(q, path)
    /\ result = "err" =>
        \E path \in DOMAIN fs : StatFailed(path) /\ (path = Root \/ path \in visited)
    /\ (pc = "done" /\ result = "ok") =>
        /\ \A e \in listed : Handled(e)
        /\ \A path \in enumerated :
            Cardinality({i \in 1..Len(warnings) :
                            warnings[i] = [kind |-> "accessing child of", path |-> path]})
            = Cardinality({e \in listed : e.kind = "err" /\ Parent(e.path) = path})

\* run returned Ok although read_dir failed on the first child of the root and the
\* iterator failed to yield an item: the siblings after them were visited
C4_Witness ==
    /\ pc = "done"
    /\ result = "ok"
    /\ <<1>> \in DOMAIN fs
    /\ fs[<<1>>].readdir = "fail"
    /\ [path |-> <<2>>, kind |-> "err"] \in listed
    /\ <<3>> \in visited

SymlinkPaths == {e.path : e \in {x \in listed : x.kind = "link"}}

C10_NoSymlinkIsEverChecked ==
    config.ignore_symlinks =>
        \A path \in SymlinkPaths \cup (IF rootLink THEN {Root} ELSE {}) :
            /\ path \notin evaluated
            /\ path \notin enumerated
            /\ ~Reported(path)

\* C10 amended: with ignore_symlinks set no symbolic link yielded by read_dir (any
\* symbolic link other than the declared root) has its metadata retrieved, is
\* checked, reported, visited or enumerated
C10_NoListedSymlinkIsEverChecked ==
    config.ignore_symlinks =>
        \A path \in SymlinkPaths :
            /\ path \notin DOMAIN fs
            /\ path \notin objChecked
            /\ path \notin evaluated
            /\ path \notin visited
            /\ path \notin enumerated
            /\ ~Reported(path)

\* the walk is over, with symlinks ignored, in a tree where read_dir yielded a
\* symbolic link before a child that was then visited
C10_Witness ==
    /\ config.ignore_symlinks
    /\ pc = "done"
    /\ result = "ok"
    /\ [path |-> <<1>>, kind |-> "link"] \in listed
    /\ <<2>> \in visited

\* the directory holding path has been checked and enumerated
ParentDone(path) == Parent(path) \in objChecked /\ Parent(path) \in enumerated

IsDirectory(path) ==
    path \in DOMAIN fs /\ IsSome(fs[path].stat) /\ Unwrap(fs[path].stat).is_dir

\* C12: the walk is pre-order and does not depend on the verdicts.  Whenever a
\* node has been yielded, visited or checked, the directory holding it (and so,
\* step by step, every directory above it) has already been checked and
\* enumerated; the violation line of a directory precedes the
\* line of everything below it; every directory run_recursive was called on has
\* been checked and enumerated, whether it passed, was reported or was out of
\* scope; and when run returns Ok every child read_dir yielded that is no
\* symbolic link has been visited
C12_DirectoryBeforeDescendants ==
    /\ \A e \in listed : ParentDone(e.path)
    /\ \A path \in visited : path # Root => ParentDone(path)
    /\ \A path \in objChecked : path # Root => ParentDone(path)
    /\ \A i, j \in 1..Len(out) : IsBelow(out[j].path, out[i].path) => i < j
    /\ \A path \in visited :
        IsDirectory(path) => path \in objChecked /\ path \in enumerated
    /\ (pc = "done" /\ result = "ok") =>
        \A e \in listed : e.kind = "plain" => e.path \in visited

\* with a directory filter set configured the root passed, its first child is a
\* directory that was reported, and a child of that directory was visited and
\* reported after it
C12_Witness ==
    /\ IsSome(config.directory_filter)
    /\ Root \in evaluated
    /\ ~Reported(Root)
    /\ <<1>> \in enumerated
    /\ <<1, 1>> \in visited
    /\ \E i, j \in 1..Len(out) :
        i < j /\ out[i].path = <<1>> /\ out[j].path = <<1, 1>>

\* C11 as claimed: when run returns an error main reports it and the process ends
\* with a non-zero exit status, and when run returns Ok (whatever warnings the
\* walk absorbed) the exit status is zero
C11_RunErrorExitsNonZero ==
    /\ result = "err" =>
        /\ errors # <<>>
        /\ IsSome(exit)
        /\ Unwrap(exit) # 0
    /\ result = "ok" => exit = Some(0)

(***************************************************************************)
(* Properties of the mode decoder (SpecDecode)                             *)
(***************************************************************************)
Bit(m, n) == (m \div (2 ^ n)) % 2

BitState(m, n) == IF Bit(m, n) = 1 THEN "SET" ELSE "UNSET"

\* the octal digit of m at place k (0 the least significant)
OctalDigit(m, k) == (m \div (8 ^ k)) % 8

\* the block the claim describes for one octal digit: read is bit 4, write bit 2,
\* execute bit 1
BlockOfDigit(d) ==
    [read |-> BitState(d, 2), write |-> BitState(d, 1), execute |-> BitState(d, 0)]

\* C13: for every mode, whatever bits it has above the low nine, the decoded user,
\* group and other blocks are those of its three least-significant octal digits
\* (user the most significant of the three, read = bit 4, write = bit 2,
\* execute = bit 1), every state is Set or Unset and never Wildcard, and no call
\* of from_st_mode_digit violates its assertion digit <= 7
C13_DecodeReadsTheLowNineBits ==
    IsSome(decoded) =>
        LET d == Unwrap(decoded) IN
        /\ StripPanic(d.user) = BlockOfDigit(OctalDigit(st_mode, 2))
        /\ StripPanic(d.group) = BlockOfDigit(OctalDigit(st_mode, 1))
        /\ StripPanic(d.other) = BlockOfDigit(OctalDigit(st_mode, 0))
        /\ \A b \in {d.user, d.group, d.other} :
            /\ {b.read, b.write, b.execute} \subseteq {"SET", "UNSET"}
            /\ ~b.panic
        /\ StripPanic(d.user) = PermissionBlockFrom(st_mode).user
        /\ StripPanic(d.group) = PermissionBlockFrom(st_mode).group
        /\ StripPanic(d.other) = PermissionBlockFrom(st_mode).other

\* the mode 0o104755 of a setuid regular file has been decoded to rwxr-xr-x
C13_Witness ==
    /\ st_mode = 8 * 8 * 8 * 8 * 8 + 4 * 8 * 8 * 8 + 7 * 64 + 5 * 8 + 5
    /\ IsSome(decoded)
    /\ StripPanic(Unwrap(decoded).user) = Blk("SET", "SET", "SET")
    /\ StripPanic(Unwrap(decoded).group) = Blk("SET", "UNSET", "SET")
    /\ StripPanic(Unwrap(decoded).other) = Blk("SET", "UNSET", "SET")

(***************************************************************************)
(* Properties of from_str (SpecParse)                                      *)
(***************************************************************************)
Parts == Split(input)

Parsed == Unwrap(parsed)

\* position k of the clause holds `letter` immediately followed by a digit
MarkerAt(part, letter, k) ==
    k + 1 <= Len(part) /\ part[k] = letter /\ IsDigit(part[k + 1])

HasMarker(part, letter) == \E k \in 1..Len(part) : MarkerAt(part, letter, k)

\* the whole contiguous run of digits after position k
RunAfter(part, k) ==
    SubSeq(part, k + 1,
           CHOOSE e \in (k + 1)..Len(part) :
                /\ \A j \in (k + 1)..e : IsDigit(part[j])
                /\ e = Len(part) \/ ~IsDigit(part[e + 1]))

\* the clause starts with a character of the permission alphabet but not with a
\* valid 9-character pattern: a letter in the wrong position (wwx...), a
\* disallowed or non-ASCII character among the nine, or fewer than three whole
\* groups
MalformedPattern(part) ==
    /\ part # <<>>
    /\ part[1] \in {"r", "w", "x", "-", "*"}
    /\ ~PatternRegexMatches(part)

\* the PermissionBlock a valid 9-character pattern stands for
StateOfChar(c) == IF c = "*" THEN "WILDCARD" ELSE IF c = "-" THEN "UNSET" ELSE "SET"

BlockOfPattern(p) ==
    [user |-> Blk(StateOfChar(p[1]), StateOfChar(p[2]), StateOfChar(p[3])),
     group |-> Blk(StateOfChar(p[4]), StateOfChar(p[5]), StateOfChar(p[6])),
     other |-> Blk(StateOfChar(p[7]), StateOfChar(p[8]), StateOfChar(p[9]))]

\* C6 as claimed: a policy string in which some clause carries a malformed
\* permission pattern fails to parse, whatever else the string contains
C6_MalformedPatternFailsTheParse ==
    (pc = "parsed" /\ \E i \in 1..Len(Parts) : MalformedPattern(Parts[i]))
        => ~Parsed.ok

OneFilter(owner, group, block) ==
    <<[user_owner |-> owner, group_owner |-> group, permissions |-> Some(block)]>>

\* C7 as claimed: the clauses P u1 g2, P g2 u1, u1 P, g2 P and u1 g2 P, written
\* without separator, each parse to one clause holding the pattern P and the ids
C7_MarkersBeforeOrAfterThePattern ==
    pc = "parsed" =>
        LET P == PatA
            U == <<"u", "1">>
            G == <<"g", "2">>
            Is(owner, group) ==
                Parsed.ok /\ Parsed.filters = OneFilter(owner, group, BlockOfPattern(P))
        IN  /\ input = P \o U \o G => Is(Some(1), Some(2))
            /\ input = P \o G \o U => Is(Some(1), Some(2))
            /\ input = U \o P => Is(Some(1), None)
            /\ input = G \o P => Is(None, Some(2))
            /\ input = U \o G \o P => Is(Some(1), Some(2))

\* the parse succeeded and kept every clause: filter i comes from clause i
AllClausesKept == pc = "parsed" /\ Parsed.ok /\ Len(Parsed.filters) = Len(Parts)

FieldOf(filter, letter) == IF letter = "u" THEN filter.user_owner ELSE filter.group_owner

\* C8 as claimed: the id of a clause is the number after the leftmost marker
C8_FirstMarkerSetsTheId ==
    AllClausesKept =>
        \A i \in 1..Len(Parts), letter \in {"u", "g"} :
            \A k \in 1..Len(Parts[i]) :
                (/\ DotMatches(Parts[i])
                 /\ MarkerAt(Parts[i], letter, k)
                 /\ \A j \in 1..(k - 1) : ~MarkerAt(Parts[i], letter, j)
                 /\ ParseU32(RunAfter(Parts[i], k)).ok)
                => FieldOf(Parsed.filters[i], letter)
                        = Some(DecimalValue(RunAfter(Parts[i], k), 0))

\* C8 amended: in a string that parses, the id of a clause is the number written
\* by the whole digit run after the rightmost `u` (`g`) that is immediately
\* followed by a digit; a clause with no such marker, or with a line feed
\* anywhere in it, has no owner (group) id
C8_LastMarkerSetsTheId ==
    AllClausesKept =>
        \A i \in 1..Len(Parts), letter \in {"u", "g"} :
            IF ~DotMatches(Parts[i]) \/ ~HasMarker(Parts[i], letter)
            THEN IsNone(FieldOf(Parsed.filters[i], letter))
            ELSE \A k \in 1..Len(Parts[i]) :
                    (/\ MarkerAt(Parts[i], letter, k)
                     /\ \A j \in (k + 1)..Len(Parts[i]) : ~MarkerAt(Parts[i], letter, j))
                    => /\ ParseU32(RunAfter(Parts[i], k)).ok
                       /\ FieldOf(Parsed.filters[i], letter)
                            = Some(DecimalValue(RunAfter(Parts[i], k), 0))

\* the clause u10u1 parsed to owner id 1
C8_Witness ==
    /\ AllClausesKept
    /\ input = <<"u", "1", "0", "u", "1">>
    /\ Parsed.filters[1].user_owner = Some(1)

\* the clause has no valid pattern at its start and no owner or group marker the
\* regex finds
NoConstraint(part) ==
    /\ ~PatternRegexMatches(part)
    /\ ~DotMatches(part) \/ (~HasMarker(part, "u") /\ ~HasMarker(part, "g"))

HasConstraint(part) == ~NoConstraint(part)

IntErrors == {"invalid digit found in string", "number too large to fit in target type"}

\* C9: clauses that yield no owner id, no group id and no pattern are dropped
\* and are never the reason of an error; if every clause is dropped the parse
\* fails with "No valid filter provided"; a returned set is non-empty, holds the
\* filters of the other clauses in input order and no filter with all three
\* fields absent
C9_EmptyClausesDroppedSetNonEmpty ==
    pc = "parsed" =>
        LET kept == SelectSeq(Parts, HasConstraint) IN
        /\ (\A i \in 1..Len(Parts) : NoConstraint(Parts[i])) =>
                (~Parsed.ok /\ Parsed.err = "No valid filter provided")
        /\ ~Parsed.ok =>
                \/ Parsed.err = "No valid filter provided" /\ kept = <<>>
                \/ Parsed.err \in IntErrors /\ kept # <<>>
        /\ Parsed.ok =>
                /\ Parsed.filters # <<>>
                /\ Len(Parsed.filters) = Len(kept)
                /\ \A j \in 1..Len(kept) :
                    /\ Parsed.filters[j] = ParseClause(kept[j]).filter
                    /\ ~(/\ IsNone(Parsed.filters[j].user_owner)
                         /\ IsNone(Parsed.filters[j].group_owner)
                         /\ IsNone(Parsed.filters[j].permissions))

\* u1,,g2 parsed to the two filters u1 and g2, in this order
C9_Witness ==
    /\ pc = "parsed"
    /\ input = <<"u", "1", ",", ",", "g", "2">>
    /\ Parsed.ok
    /\ Len(Parsed.filters) = 2
    /\ Parsed.filters[1].user_owner = Some(1)
    /\ Parsed.filters[2].group_owner = Some(2)

====
